---- MODULE Spec2Model ----
(***************************************************************************)
(* Model of the keywords crate (src/src/lib.rs): the AsciiKeywords         *)
(* tokenizer, the Match ordering and the KeywordMap container.             *)
(*                                                                         *)
(* Strings are sequences of bytes (integers 0..255).  Positions are the    *)
(* 0-based usize indices of the code; the element at position p of a Vec   *)
(* modelled by the sequence v is v[p + 1].                                  *)
(***************************************************************************)
EXTENDS Integers, Sequences, FiniteSets, TLC

VARIABLES
    data,           \* KeywordMap.data: Vec<V>
    keys,           \* KeywordMap.keys: HashMap<K, usize>
    keyword_index,  \* KeywordMap.keyword_index: Vec<(String, usize)>
    panicked,       \* TRUE once an indexing operation of the container panicked
    last,           \* the last call on the container and what it returned
    log,            \* the insert calls made so far (insert-only specification)
    s,              \* AsciiKeywords.s: the bytes being tokenized
    index,          \* AsciiKeywords.index: the cursor
    out,            \* the tokens next() has returned so far
    ret,            \* what the last call of next() returned
    lhs,            \* left operand of a Match comparison
    rhs,            \* right operand of a Match comparison
    ord             \* result of the last Match comparison

vars == <<data, keys, keyword_index, panicked, last, log,
          s, index, out, ret, lhs, rhs, ord>>

mapVars == <<data, keys, keyword_index, panicked, last, log>>
tokVars == <<s, index, out, ret>>
cmpVars == <<lhs, rhs, ord>>

(***************************************************************************)
(* Bounds                                                                  *)
(***************************************************************************)
MaxData == 3        \* longest Value Store explored
MaxValue == 2       \* values are 1..MaxValue
MaxLen == 4         \* longest tokenizer input, in characters
MaxInner == 2       \* inner values of a Match are 0..MaxInner (and NaN)

(***************************************************************************)
(* Option<T>                                                               *)
(***************************************************************************)
None == <<"None">>
Some(v) == <<"Some", v>>

(***************************************************************************)
(* Bytes and characters                                                    *)
(***************************************************************************)
LowerA == <<97>>            \* "a"
UpperZ == <<90>>            \* "Z"
Digit1 == <<49>>            \* "1"
Underscore == <<95>>        \* "_"
EAcute == <<195, 169>>      \* U+00E9, two bytes of UTF-8

Chars == {LowerA, UpperZ, Digit1, Underscore, EAcute}

is_ascii_alphabetic(b) == (b >= 65 /\ b <= 90) \/ (b >= 97 /\ b <= 122)

is_ascii_digit(b) == b >= 48 /\ b <= 57

is_ascii_alphanumeric(b) == is_ascii_alphabetic(b) \/ is_ascii_digit(b)

\* std::str::from_utf8 succeeds: one-byte and two-byte encodings (the only
\* ones the characters above produce) are accepted, anything else rejected.
RECURSIVE from_utf8_ok(_)
from_utf8_ok(bytes) ==
    IF bytes = <<>> THEN TRUE
    ELSE IF bytes[1] < 128 THEN from_utf8_ok(Tail(bytes))
    ELSE IF bytes[1] >= 194 /\ bytes[1] <= 223 /\ Len(bytes) >= 2
            /\ bytes[2] >= 128 /\ bytes[2] <= 191
         THEN from_utf8_ok(Tail(Tail(bytes)))
    ELSE FALSE

(***************************************************************************)
(* AsciiKeywords::next                                                     *)
(***************************************************************************)
RECURSIVE ScanAlphabetic_alphanumeric(_, _)
ScanAlphabetic_alphanumeric(str, i) ==
    IF i < Len(str) /\ is_ascii_alphanumeric(str[i + 1])
    THEN ScanAlphabetic_alphanumeric(str, i + 1) ELSE i

\* while self.index < self.s.len() && self.s[self.index].is_ascii_alphabetic()
RECURSIVE ScanAlphabetic(_, _)
ScanAlphabetic(str, i) ==
    IF i < Len(str) /\ is_ascii_alphabetic(str[i + 1])
    THEN ScanAlphabetic(str, i + 1) ELSE i

\* while self.index < self.s.len() && self.s[self.index].is_ascii_digit()
RECURSIVE ScanDigit(_, _)
ScanDigit(str, i) ==
    IF i < Len(str) /\ is_ascii_digit(str[i + 1])
    THEN ScanDigit(str, i + 1) ELSE i

\* while self.index < self.s.len() && !self.s[self.index].is_ascii_alphanumeric()
RECURSIVE SkipSeparators(_, _)
SkipSeparators(str, i) ==
    IF i < Len(str) /\ ~is_ascii_alphanumeric(str[i + 1])
    THEN SkipSeparators(str, i + 1) ELSE i

AsciiKeywords_next_resuming(str, i) ==
    IF i >= Len(str) THEN [index |-> i, ret |-> None]
    ELSE LET start == i
             j == IF is_ascii_alphabetic(str[start + 1]) THEN ScanAlphabetic(str, i)
                  ELSE IF is_ascii_digit(str[start + 1]) THEN ScanDigit(str, i)
                  ELSE i
             keyword == SubSeq(str, start + 1, j)
         IN  IF keyword = <<>> THEN [index |-> j + 1, ret |-> None]
             ELSE [index |-> SkipSeparators(str, j), ret |-> Some(keyword)]

\* One call of next() on the iterator (str, i): the cursor afterwards and the
\* value returned.
AsciiKeywords_next(str, i) ==
    IF i >= Len(str) THEN [index |-> i, ret |-> None]
    ELSE LET start == i
             j == IF is_ascii_alphabetic(str[start + 1]) THEN ScanAlphabetic(str, i)
                  ELSE IF is_ascii_digit(str[start + 1]) THEN ScanDigit(str, i)
                  ELSE i
             keyword == SubSeq(str, start + 1, j)
         IN  IF ~from_utf8_ok(keyword) THEN [index |-> j, ret |-> None]
             ELSE IF keyword = <<>> THEN [index |-> j, ret |-> None]
             ELSE [index |-> SkipSeparators(str, j), ret |-> Some(keyword)]

\* key.ascii_keywords() driven to exhaustion by a for loop: the tokens
\* returned before the first None.
RECURSIVE CollectFrom(_, _)
CollectFrom(str, i) ==
    LET r == AsciiKeywords_next(str, i)
    IN  IF r.ret = None THEN <<>>
        ELSE <<r.ret[2]>> \o CollectFrom(str, r.index)

ascii_keywords(str) == CollectFrom(str, 0)

(***************************************************************************)
(* Match<V> and its ordering                                               *)
(***************************************************************************)
Exact(v) == <<"Exact", v>>
Prefix(v) == <<"Prefix", v>>

\* An inner value that is not comparable with anything (V: PartialOrd only).
NaN == 0 - 1

InnerValues == (0 .. MaxInner) \cup {NaN}

Matches == {Exact(v) : v \in InnerValues} \cup {Prefix(v) : v \in InnerValues}

\* V::partial_cmp
V_partial_cmp(a, b) ==
    IF a = NaN \/ b = NaN THEN None
    ELSE IF a < b THEN Some("Less")
    ELSE IF a > b THEN Some("Greater")
    ELSE Some("Equal")

Match_partial_cmp_swapped(m1, m2) ==
    IF m1[1] = "Exact" /\ m2[1] = "Exact" THEN V_partial_cmp(m1[2], m2[2])
    ELSE IF m1[1] = "Prefix" /\ m2[1] = "Prefix" THEN V_partial_cmp(m1[2], m2[2])
    ELSE IF m1[1] = "Exact" /\ m2[1] = "Prefix" THEN Some("Greater")
    ELSE Some("Less")

\* <Match<V> as PartialOrd>::partial_cmp
Match_partial_cmp(m1, m2) ==
    IF m1[1] = "Exact" /\ m2[1] = "Exact" THEN V_partial_cmp(m1[2], m2[2])
    ELSE IF m1[1] = "Prefix" /\ m2[1] = "Prefix" THEN V_partial_cmp(m1[2], m2[2])
    ELSE IF m1[1] = "Exact" /\ m2[1] = "Prefix" THEN Some("Less")
    ELSE Some("Greater")

\* <Match<V> as Ord>::cmp: self.partial_cmp(other).unwrap_or(Equal)
Match_cmp(m1, m2) ==
    LET r == Match_partial_cmp(m1, m2)
    IN  IF r = None THEN "Equal" ELSE r[2]

(***************************************************************************)
(* KeywordMap: the keys and queries explored                               *)
(***************************************************************************)
KeyA == LowerA                                  \* "a"
KeyAZ1 == LowerA \o UpperZ \o Digit1            \* "aZ1"
KeyAA == LowerA \o Underscore \o LowerA         \* "a_a"
KeyUA == Underscore \o LowerA                   \* "_a"

Keys == {KeyA, KeyAZ1, KeyAA, KeyUA}

Queries == Keys \cup {<<>>, Digit1}

Values == 1 .. MaxValue

starts_with_whole(str, prefix) == str = prefix

\* str::starts_with on bytes
starts_with(str, prefix) ==
    Len(prefix) <= Len(str) /\ SubSeq(str, 1, Len(prefix)) = prefix

(***************************************************************************)
(* KeywordMap: pure parts of the operations                                *)
(***************************************************************************)
VecRemove_swap(v, pos) ==
    [n \in 1 .. (Len(v) - 1) |-> IF n = pos + 1 THEN v[Len(v)] ELSE v[n]]

\* Vec::remove(index) on a vector v, for index < v.len()
VecRemove(v, pos) ==
    [n \in 1 .. (Len(v) - 1) |-> IF n <= pos THEN v[n] ELSE v[n + 1]]

Retain_nothing(kwi, pos) == kwi

Retain_inverted(kwi, pos) == SelectSeq(kwi, LAMBDA p : p[2] = pos)

\* self.keyword_index.retain(|(_, idx)| *idx != index)
Retain(kwi, pos) == SelectSeq(kwi, LAMBDA p : p[2] # pos)

AdjustKeywordIdx_none(idx, pos) == idx

\* if *idx > index { *idx -= 1 }   (keyword index loop)
AdjustKeywordIdx(idx, pos) == IF idx > pos THEN idx - 1 ELSE idx

AdjustKeyIdx_none(idx, pos) == idx

AdjustKeyIdx_all(idx, pos) == IF idx > 0 THEN idx - 1 ELSE idx

\* if *idx > index { *idx -= 1 }   (keys map loop)
AdjustKeyIdx(idx, pos) == IF idx > pos THEN idx - 1 ELSE idx

KeywordPairs_first_only(key, pos) ==
    LET toks == ascii_keywords(key)
    IN  [n \in 1 .. (IF Len(toks) > 0 THEN 1 ELSE 0) |-> <<toks[n], pos>>]

\* the (keyword, index) pairs insert pushes for a key
KeywordPairs(key, pos) ==
    LET toks == ascii_keywords(key)
    IN  [n \in 1 .. Len(toks) |-> <<toks[n], pos>>]

\* KeywordMap::get
get(key) ==
    IF key \in DOMAIN keys
    THEN (IF keys[key] < Len(data) THEN Some(data[keys[key] + 1]) ELSE None)
    ELSE None

exact_match_default(q) == Some(IF q \in DOMAIN keys THEN keys[q] ELSE 0)

\* self.keys.get(keyword).copied()
exact_match(q) == IF q \in DOMAIN keys THEN Some(keys[q]) ELSE None

PrefixPositions_unfiltered(q) ==
    LET started == SelectSeq(keyword_index, LAMBDA p : starts_with(p[1], q))
    IN  [n \in 1 .. Len(started) |-> started[n][2]]

\* the positions the Prefix part of find_by_partial_keyword visits, in order
PrefixPositions(q) ==
    LET started == SelectSeq(keyword_index, LAMBDA p : starts_with(p[1], q))
        kept == SelectSeq(started,
                    LAMBDA p : ~(exact_match(q) # None /\ p[2] = exact_match(q)[2]))
    IN  [n \in 1 .. Len(kept) |-> kept[n][2]]

\* the positions find_by_partial_keyword indexes self.data with
FindPositions(q) ==
    (IF exact_match(q) # None THEN <<exact_match(q)[2]>> ELSE <<>>)
        \o PrefixPositions(q)

\* some self.data[index] of find_by_partial_keyword is out of bounds
FindPanics(q) ==
    \E n \in 1 .. Len(FindPositions(q)) : FindPositions(q)[n] >= Len(data)

\* KeywordMap::find_by_partial_keyword, collected
find_by_partial_keyword(q) ==
    LET pp == PrefixPositions(q)
    IN  (IF exact_match(q) # None
         THEN <<Exact(data[exact_match(q)[2] + 1])>> ELSE <<>>)
        \o [n \in 1 .. Len(pp) |-> Prefix(data[pp[n] + 1])]

(***************************************************************************)
(* KeywordMap: the operations                                              *)
(***************************************************************************)
Call(op, key, value, r, pos) ==
    [op |-> op, key |-> key, value |-> value, ret |-> r, pos |-> pos]

\* KeywordMap::new
new ==
    /\ data = <<>>
    /\ keys = <<>>
    /\ keyword_index = <<>>
    /\ panicked = FALSE
    /\ last = Call("new", <<>>, None, None, None)
    /\ log = <<>>

InsertFields_index_after_push(key, value) ==
    LET pos == Len(data) + 1
    IN  /\ keyword_index' = keyword_index \o KeywordPairs(key, pos)
        /\ data' = Append(data, value)
        /\ keys' = [k \in (DOMAIN keys) \cup {key} |->
                        IF k = key THEN pos ELSE keys[k]]

InsertFields_replacing(key, value) ==
    IF key \in DOMAIN keys
    THEN /\ data' = [data EXCEPT ![keys[key] + 1] = value]
         /\ UNCHANGED <<keys, keyword_index>>
    ELSE LET pos == Len(data)
         IN  /\ keyword_index' = keyword_index \o KeywordPairs(key, pos)
             /\ data' = Append(data, value)
             /\ keys' = [k \in (DOMAIN keys) \cup {key} |->
                             IF k = key THEN pos ELSE keys[k]]

InsertFields_prepending(key, value) ==
    LET pos == Len(data)
    IN  /\ keyword_index' = KeywordPairs(key, pos) \o keyword_index
        /\ data' = Append(data, value)
        /\ keys' = [k \in (DOMAIN keys) \cup {key} |->
                        IF k = key THEN pos ELSE keys[k]]

\* the container's fields after insert(key, value)
InsertFields(key, value) ==
    LET pos == Len(data)
    IN  /\ keyword_index' = keyword_index \o KeywordPairs(key, pos)
        /\ data' = Append(data, value)
        /\ keys' = [k \in (DOMAIN keys) \cup {key} |->
                        IF k = key THEN pos ELSE keys[k]]

\* KeywordMap::insert
Insert(key, value) ==
    /\ ~panicked
    /\ Len(data) < MaxData
    /\ InsertFields(key, value)
    /\ last' = Call("insert", key, Some(value), None, Some(Len(data)))
    /\ UNCHANGED <<panicked, log>>
    /\ UNCHANGED <<tokVars, cmpVars>>

\* KeywordMap::insert, recording the call
InsertLogged(key, value) ==
    /\ ~panicked
    /\ Len(data) < MaxData
    /\ InsertFields(key, value)
    /\ last' = Call("insert", key, Some(value), None, Some(Len(data)))
    /\ log' = Append(log, <<key, value>>)
    /\ UNCHANGED panicked
    /\ UNCHANGED <<tokVars, cmpVars>>

\* KeywordMap::remove of a key the map does not hold, with a default index
RemoveAbsent_default(key) ==
    /\ last' = Call("remove", key, None, None, None)
    /\ data' = IF data = <<>> THEN data ELSE Tail(data)
    /\ UNCHANGED <<keys, keyword_index, panicked>>

\* KeywordMap::remove of a key the map does not hold: self.keys.remove(..)?
RemoveAbsent(key) ==
    /\ last' = Call("remove", key, None, None, None)
    /\ UNCHANGED <<data, keys, keyword_index, panicked>>

\* KeywordMap::remove of a key the map holds
RemovePresent(key) ==
    LET pos == keys[key]
        rest == [k \in (DOMAIN keys) \ {key} |-> keys[k]]
    IN  IF pos >= Len(data)
        THEN \* self.data.remove(index) panics, after self.keys.remove
             /\ keys' = rest
             /\ panicked' = TRUE
             /\ last' = Call("remove", key, None, <<"Panic">>, Some(pos))
             /\ UNCHANGED <<data, keyword_index>>
        ELSE /\ data' = VecRemove(data, pos)
             /\ keyword_index' =
                    LET kept == Retain(keyword_index, pos)
                    IN  [n \in 1 .. Len(kept) |->
                            <<kept[n][1], AdjustKeywordIdx(kept[n][2], pos)>>]
             /\ keys' = [k \in DOMAIN rest |-> AdjustKeyIdx(rest[k], pos)]
             /\ last' = Call("remove", key, None, Some(data[pos + 1]), Some(pos))
             /\ UNCHANGED panicked

\* KeywordMap::remove
Remove(key) ==
    /\ ~panicked
    /\ IF key \in DOMAIN keys THEN RemovePresent(key) ELSE RemoveAbsent(key)
    /\ UNCHANGED log
    /\ UNCHANGED <<tokVars, cmpVars>>

Get_removing(key) ==
    /\ ~panicked
    /\ last' = Call("get", key, None, get(key), exact_match(key))
    /\ keys' = [k \in (DOMAIN keys) \ {key} |-> keys[k]]
    /\ UNCHANGED <<data, keyword_index, panicked, log>>
    /\ UNCHANGED <<tokVars, cmpVars>>

\* KeywordMap::get
Get(key) ==
    /\ ~panicked
    /\ last' = Call("get", key, None, get(key), exact_match(key))
    /\ UNCHANGED <<data, keys, keyword_index, panicked, log>>
    /\ UNCHANGED <<tokVars, cmpVars>>

\* KeywordMap::get_mut; the caller may write w through the returned reference
GetMut(key, w) ==
    /\ ~panicked
    /\ last' = Call("get_mut", key, w, get(key), exact_match(key))
    /\ data' = IF get(key) # None /\ w # None
               THEN [data EXCEPT ![keys[key] + 1] = w[2]]
               ELSE data
    /\ UNCHANGED <<keys, keyword_index, panicked, log>>
    /\ UNCHANGED <<tokVars, cmpVars>>

\* KeywordMap::find_by_partial_keyword, driven to exhaustion
Find(q) ==
    /\ ~panicked
    /\ IF FindPanics(q)
       THEN /\ panicked' = TRUE
            /\ last' = Call("find", q, None, <<"Panic">>, exact_match(q))
       ELSE /\ last' = Call("find", q, None, find_by_partial_keyword(q), exact_match(q))
            /\ UNCHANGED panicked
    /\ UNCHANGED <<data, keys, keyword_index, log>>
    /\ UNCHANGED <<tokVars, cmpVars>>

(***************************************************************************)
(* The tokenizer and the comparison as steps                               *)
(***************************************************************************)
RECURSIVE Flatten(_)
Flatten(cs) == IF cs = <<>> THEN <<>> ELSE Head(cs) \o Flatten(Tail(cs))

\* the well-formed UTF-8 strings of at most MaxLen characters
InputStrings ==
    {Flatten(cs) : cs \in UNION {[1 .. n -> Chars] : n \in 0 .. MaxLen}}

Unpolled == <<"Unpolled">>

\* AsciiKeywords::new
AsciiKeywords_new(str) ==
    /\ s = str
    /\ index = 0
    /\ out = <<>>
    /\ ret = Unpolled

\* one call of AsciiKeywords::next on the iterator
CallNext ==
    LET r == AsciiKeywords_next(s, index)
    IN  /\ index' = r.index
        /\ ret' = r.ret
        /\ out' = IF r.ret = None THEN out ELSE Append(out, r.ret[2])
        /\ UNCHANGED s
        /\ UNCHANGED <<mapVars, cmpVars>>

NotCompared == [fn |-> "none", res |-> None]

\* lhs.partial_cmp(&rhs)
PartialCmp ==
    /\ ord' = [fn |-> "partial_cmp", res |-> Match_partial_cmp(lhs, rhs)]
    /\ UNCHANGED <<lhs, rhs>>
    /\ UNCHANGED <<mapVars, tokVars>>

\* lhs.cmp(&rhs), for V: Ord (every pair of inner values comparable)
Cmp ==
    /\ lhs[2] # NaN /\ rhs[2] # NaN
    /\ ord' = [fn |-> "cmp", res |-> Match_cmp(lhs, rhs)]
    /\ UNCHANGED <<lhs, rhs>>
    /\ UNCHANGED <<mapVars, tokVars>>

(***************************************************************************)
(* Specifications                                                          *)
(***************************************************************************)
IdleTokenizer == AsciiKeywords_new(<<>>)

IdleCmp == lhs = Exact(0) /\ rhs = Exact(0) /\ ord = NotCompared

\* the container under any interleaving of its operations
Init == new /\ IdleTokenizer /\ IdleCmp

Next ==
    \/ \E key \in Keys, value \in Values : Insert(key, value)
    \/ \E key \in Keys : Remove(key)
    \/ \E key \in Keys : Get(key)
    \/ \E key \in Keys, w \in {None} \cup {Some(v) : v \in Values} : GetMut(key, w)
    \/ \E q \in Queries : Find(q)

Spec == Init /\ [][Next]_vars

\* KeywordMap::insert of a key the map does not hold
InsertFresh(key, value) ==
    /\ key \notin DOMAIN keys
    /\ Insert(key, value)

\* the container when no key is inserted while it is present
NextFresh ==
    \/ \E key \in Keys, value \in Values : InsertFresh(key, value)
    \/ \E key \in Keys : Remove(key)
    \/ \E key \in Keys : Get(key)
    \/ \E key \in Keys, w \in {None} \cup {Some(v) : v \in Values} : GetMut(key, w)
    \/ \E q \in Queries : Find(q)

SpecFresh == Init /\ [][NextFresh]_vars

\* the container under insert calls only
NextInsert == \E key \in Keys, value \in Values : InsertLogged(key, value)

SpecInsert == Init /\ [][NextInsert]_vars

\* the tokenizer on every input string
InitTok == new /\ IdleCmp /\ \E str \in InputStrings : AsciiKeywords_new(str)

NextTok == CallNext

SpecTok == InitTok /\ [][NextTok]_vars

\* the tokenizer driven by a caller that keeps calling next(), as the for
\* loop of insert does
SpecTokFair == SpecTok /\ WF_vars(CallNext)

\* the comparison on every pair of matches
InitCmp ==
    /\ new /\ IdleTokenizer
    /\ lhs \in Matches /\ rhs \in Matches /\ ord = NotCompared

NextCmp == PartialCmp \/ Cmp

SpecCmp == InitCmp /\ [][NextCmp]_vars

(***************************************************************************)
(* Properties of the container                                             *)
(***************************************************************************)
\* C1: in every reachable state the Exact-Key Index has as many entries as
\* the Value Store has values.
C1_KeysCountEqualsDataLen == Cardinality(DOMAIN keys) = Len(data)

\* C2: in every reachable state every position of the Exact-Key Index and of
\* the Keyword Index is below the length of the Value Store, and no indexing
\* of the Value Store by remove or find_by_partial_keyword has panicked.
C2_PositionsInBounds ==
    /\ \A k \in DOMAIN keys : keys[k] < Len(data)
    /\ \A n \in 1 .. Len(keyword_index) : keyword_index[n][2] < Len(data)
    /\ ~panicked

\* a removal has shifted a key and some keyword pairs down to the top position
C2_Witness ==
    /\ last.op = "remove" /\ last.pos # None
    /\ \E k \in DOMAIN keys : keys[k] = Len(data) - 1 /\ keys[k] >= last.pos[2]
    /\ \E n \in 1 .. Len(keyword_index) :
            keyword_index[n][2] = Len(data) - 1 /\ keyword_index[n][2] >= last.pos[2]

LoggedKeys == {log[n][1] : n \in 1 .. Len(log)}

DistinctLog == \A m, n \in 1 .. Len(log) : log[m][1] = log[n][1] => m = n

\* C3: after insert calls with pairwise distinct keys, get returns for every
\* inserted key the value inserted with it, and absent for every other key.
C3_GetAfterDistinctInserts ==
    DistinctLog =>
        /\ \A n \in 1 .. Len(log) : get(log[n][1]) = Some(log[n][2])
        /\ \A k \in Keys \ LoggedKeys : get(k) = None

\* several distinct keys were inserted and some key never was
C3_Witness ==
    /\ DistinctLog
    /\ Len(log) >= 3
    /\ Keys \ LoggedKeys # {}

\* C4: remove(k) of a present key makes get(k) absent and leaves get(k2) as it
\* was for every other present key k2.
C4_RemoveKeepsOtherKeys ==
    [][\A k \in DOMAIN keys :
            (last'.op = "remove" /\ last'.key = k) =>
                /\ get(k)' = None
                /\ \A k2 \in (DOMAIN keys) \ {k} :
                        get(k2) # None /\ get(k2)' = get(k2)]_vars

\* a key was removed from between two keys that remain
C4_Witness ==
    /\ last.op = "remove" /\ last.pos # None /\ ~panicked
    /\ last.key \notin DOMAIN keys
    /\ \E k2 \in DOMAIN keys : keys[k2] < last.pos[2]
    /\ \E k2 \in DOMAIN keys : keys[k2] >= last.pos[2]

\* q is a byte prefix of tok
IsBytePrefix(q, tok) ==
    /\ Len(q) <= Len(tok)
    /\ \A i \in 1 .. Len(q) : tok[i] = q[i]

\* the Keyword Index entries a query reports as Prefix
ReportedEntries(q) ==
    {n \in 1 .. Len(keyword_index) :
        /\ IsBytePrefix(q, keyword_index[n][1])
        /\ (q \in DOMAIN keys => keyword_index[n][2] # keys[q])}

\* the j-th smallest element of a set of numbers
Nth(S, j) == CHOOSE n \in S : Cardinality({m \in S : m < n}) = j - 1

ExpectedMatches(q) ==
    (IF q \in DOMAIN keys THEN <<Exact(data[keys[q] + 1])>> ELSE <<>>)
        \o [j \in 1 .. Cardinality(ReportedEntries(q)) |->
                Prefix(data[keyword_index[Nth(ReportedEntries(q), j)][2] + 1])]

\* C5: find_by_partial_keyword(q) yields the Exact match of key q first when q
\* is a present key, then one Prefix match per Keyword Index pair whose token
\* has q as a byte prefix and whose position is not the exact match's, in
\* Keyword Index order, repeated tokens giving repeated matches.
C5_FindYieldsExactThenPrefixes ==
    \A q \in Queries : ~FindPanics(q) /\ find_by_partial_keyword(q) = ExpectedMatches(q)

\* the query is a present key, one key repeats a token and another key has a
\* token the query properly prefixes
C5_Witness ==
    /\ last.op = "find" /\ last.key = KeyA
    /\ {KeyA, KeyAA, KeyAZ1} \subseteq DOMAIN keys
    /\ Len(last.ret) = 4

\* C6: when q is a present key, no Prefix match of find_by_partial_keyword(q)
\* refers to the position of the Exact match.
C6_ExactNotReportedAsPrefix ==
    \A q \in Queries \cap DOMAIN keys :
        \A n \in 1 .. Len(PrefixPositions(q)) : PrefixPositions(q)[n] # keys[q]

\* the queried key has tokens that start with the query, and other keys do too
C6_Witness ==
    /\ last.op = "find" /\ last.key = KeyA /\ KeyA \in DOMAIN keys
    /\ \E n \in 1 .. Len(keyword_index) :
            keyword_index[n][2] = keys[KeyA] /\ IsBytePrefix(KeyA, keyword_index[n][1])
    /\ \E n \in 1 .. Len(keyword_index) :
            keyword_index[n][2] # keys[KeyA] /\ IsBytePrefix(KeyA, keyword_index[n][1])

(***************************************************************************)
(* Properties of the tokenizer                                             *)
(***************************************************************************)
ByteClass(b) ==
    IF is_ascii_alphabetic(b) THEN "alphabetic"
    ELSE IF is_ascii_digit(b) THEN "digit"
    ELSE "separator"

\* the 1-based places where a maximal alphabetic or digit run begins
RunStarts(str) ==
    {i \in 1 .. Len(str) :
        /\ ByteClass(str[i]) # "separator"
        /\ (i = 1 \/ ByteClass(str[i - 1]) # ByteClass(str[i]))}

\* the last place of the maximal run that begins at i
RunEnd(str, i) ==
    CHOOSE j \in i .. Len(str) :
        /\ \A m \in i .. j : ByteClass(str[m]) = ByteClass(str[i])
        /\ (j = Len(str) \/ ByteClass(str[j + 1]) # ByteClass(str[i]))

\* the maximal alphabetic runs and maximal digit runs, left to right
MaximalRuns(str) ==
    [j \in 1 .. Cardinality(RunStarts(str)) |->
        SubSeq(str, Nth(RunStarts(str), j), RunEnd(str, Nth(RunStarts(str), j)))]

\* C7: once next() has returned None, the tokens it returned are exactly the
\* maximal ASCII-alphabetic and ASCII-digit runs of the input, left to right
\* (so there are none only if the input has no ASCII alphanumeric byte).
C7_TokensAreMaximalRuns == ret = None => out = MaximalRuns(s)

(***************************************************************************)
(* Further properties of the container                                     *)
(***************************************************************************)
\* C8: for every present key, the Keyword Index pairs at that key's position
\* are exactly the tokens of the key, one pair per token, in token order.
C8_PairsOfKeyAreItsTokens ==
    \A k \in DOMAIN keys :
        LET mine == SelectSeq(keyword_index, LAMBDA p : p[2] = keys[k])
        IN  [n \in 1 .. Len(mine) |-> mine[n][1]] = ascii_keywords(k)

\* after a removal, a key with a repeated token sits at a shifted position
\* and other pairs remain in the Keyword Index
C8_Witness ==
    /\ last.op = "remove" /\ last.pos # None
    /\ KeyAA \in DOMAIN keys /\ keys[KeyAA] >= last.pos[2]
    /\ Len(ascii_keywords(KeyAA)) = 2
    /\ Len(keyword_index) > 2

\* C9: remove(k) of a key that is not present returns absent and leaves the
\* Value Store, the Exact-Key Index and the Keyword Index unchanged.
C9_RemoveAbsentChangesNothing ==
    [][\A k \in Keys \ DOMAIN keys :
            (last'.op = "remove" /\ last'.key = k) =>
                /\ last'.ret = None
                /\ data' = data /\ keys' = keys /\ keyword_index' = keyword_index
                /\ panicked' = panicked]_vars

\* an absent key was removed from a container that holds other keys
C9_Witness ==
    /\ last.op = "remove" /\ last.pos = None /\ last.ret = None
    /\ Len(data) >= 2 /\ keys # <<>> /\ keyword_index # <<>>

(***************************************************************************)
(* Properties of the Match ordering                                        *)
(***************************************************************************)
\* C10: Exact(a) compares less than Prefix(b) and Prefix(b) greater than
\* Exact(a) whatever a and b are; two matches of the same variant compare as
\* their inner values do.
C10_ExactOrdersBeforePrefix ==
    /\ ord.fn = "partial_cmp" =>
        /\ (lhs[1] = "Exact" /\ rhs[1] = "Prefix") => ord.res = Some("Less")
        /\ (lhs[1] = "Prefix" /\ rhs[1] = "Exact") => ord.res = Some("Greater")
        /\ lhs[1] = rhs[1] => ord.res = V_partial_cmp(lhs[2], rhs[2])
    /\ ord.fn = "cmp" =>
        /\ (lhs[1] = "Exact" /\ rhs[1] = "Prefix") => ord.res = "Less"
        /\ (lhs[1] = "Prefix" /\ rhs[1] = "Exact") => ord.res = "Greater"
        /\ lhs[1] = rhs[1] => Some(ord.res) = V_partial_cmp(lhs[2], rhs[2])

\* an Exact with the greater inner value was compared with a Prefix
C10_Witness ==
    /\ ord.fn = "cmp"
    /\ lhs[1] = "Exact" /\ rhs[1] = "Prefix" /\ lhs[2] > rhs[2]

(***************************************************************************)
(* Frame properties of the container's operations                          *)
(***************************************************************************)
\* C11: get, get_mut (when nothing is written through the reference) and
\* find_by_partial_keyword leave the Value Store, the Exact-Key Index and the
\* Keyword Index unchanged, for present and absent keys and any query.
C11_ReadsChangeNothing ==
    [][(\/ last'.op = "get"
        \/ last'.op = "find"
        \/ (last'.op = "get_mut" /\ last'.value = None)) =>
            /\ data' = data
            /\ keys' = keys
            /\ keyword_index' = keyword_index
            /\ panicked' = panicked]_vars

\* a present key was read from a container that holds several entries
C11_Witness ==
    /\ last.op \in {"get", "get_mut", "find"}
    /\ last.pos # None
    /\ Len(data) >= 2 /\ keyword_index # <<>>

IsEmptyContainer == data = <<>> /\ keys = <<>> /\ keyword_index = <<>>

\* C12: on an empty container find_by_partial_keyword yields the empty
\* sequence for every query, the empty string included.
C12_FindOnEmptyIsEmpty ==
    IsEmptyContainer =>
        \A q \in Queries : ~FindPanics(q) /\ find_by_partial_keyword(q) = <<>>

\* the empty string was searched for in an empty container
C12_Witness ==
    /\ IsEmptyContainer
    /\ last.op = "find" /\ last.key = <<>> /\ last.ret = <<>>

\* the Keyword Index entries whose position is not p
EntriesNotAt(kwi, p) == {n \in 1 .. Len(kwi) : kwi[n][2] # p}

\* a position after the slot p has been taken out
ShiftedDown(idx, p) == IF idx > p THEN idx - 1 ELSE idx

\* C13: remove(k) of a present key at position p returns the value at p,
\* shortens the Value Store by one, deletes exactly the Keyword Index pairs at
\* p and the entry of k, decrements every remaining position above p in both
\* indexes, and keeps lower positions, tokens and the pairs' order.
C13_RemoveEffect ==
    [][\A k \in DOMAIN keys :
            (last'.op = "remove" /\ last'.key = k) =>
                LET p == keys[k]
                    left == EntriesNotAt(keyword_index, p)
                IN  /\ last'.ret = Some(data[p + 1])
                    /\ Len(data') = Len(data) - 1
                    /\ \A i \in 1 .. Len(data') :
                            data'[i] = IF i <= p THEN data[i] ELSE data[i + 1]
                    /\ DOMAIN keys' = (DOMAIN keys) \ {k}
                    /\ \A k2 \in DOMAIN keys' : keys'[k2] = ShiftedDown(keys[k2], p)
                    /\ Len(keyword_index') = Cardinality(left)
                    /\ \A j \in 1 .. Len(keyword_index') :
                            /\ keyword_index'[j][1] = keyword_index[Nth(left, j)][1]
                            /\ keyword_index'[j][2] =
                                    ShiftedDown(keyword_index[Nth(left, j)][2], p)]_vars

\* the middle one of three entries was removed, and pairs stay on both sides
C13_Witness ==
    /\ last.op = "remove" /\ last.pos # None /\ ~panicked
    /\ last.pos[2] >= 1 /\ last.pos[2] < Len(data)
    /\ \E n \in 1 .. Len(keyword_index) : keyword_index[n][2] < last.pos[2]
    /\ \E n \in 1 .. Len(keyword_index) : keyword_index[n][2] >= last.pos[2]
    /\ \E k \in DOMAIN keys : keys[k] >= last.pos[2]

\* C14: insert(key, value) appends value at position len(Value Store),
\* appends one (token, position) pair per token the tokenizer produces for
\* key, in token order and without deduplication, maps key to that position
\* and leaves earlier values, earlier pairs and other keys' positions alone.
C14_InsertEffect ==
    [][\A k \in Keys, v \in Values :
            (last'.op = "insert" /\ last'.key = k /\ last'.value = Some(v)) =>
                LET p == Len(data)
                    toks == ascii_keywords(k)
                IN  /\ Len(data') = p + 1
                    /\ data'[p + 1] = v
                    /\ \A i \in 1 .. p : data'[i] = data[i]
                    /\ Len(keyword_index') = Len(keyword_index) + Len(toks)
                    /\ \A n \in 1 .. Len(keyword_index) :
                            keyword_index'[n] = keyword_index[n]
                    /\ \A n \in 1 .. Len(toks) :
                            keyword_index'[Len(keyword_index) + n] = <<toks[n], p>>
                    /\ DOMAIN keys' = (DOMAIN keys) \cup {k}
                    /\ keys'[k] = p
                    /\ \A k2 \in (DOMAIN keys) \ {k} : keys'[k2] = keys[k2]]_vars

\* a key that holds the same word twice was inserted after other entries
C14_Witness ==
    /\ last.op = "insert" /\ last.key = KeyAA
    /\ last.pos[2] >= 1
    /\ Len(keyword_index) >= 3
    /\ keyword_index[Len(keyword_index)] = <<LowerA, last.pos[2]>>
    /\ keyword_index[Len(keyword_index) - 1] = <<LowerA, last.pos[2]>>

(***************************************************************************)
(* Re-insertion of a present key                                           *)
(***************************************************************************)
\* the positions of the Value Store no key maps to (superseded slots)
Orphans == {p \in 0 .. (Len(data) - 1) : \A k \in DOMAIN keys : keys[k] # p}

\* the tokens of the Keyword Index pairs at position p, in order
TokensAt(kwi, p) ==
    LET mine == SelectSeq(kwi, LAMBDA e : e[2] = p)
    IN  [n \in 1 .. Len(mine) |-> mine[n][1]]

Excess == Len(data) - Cardinality(DOMAIN keys)

\* insert of a present key: get returns the new value, the old slot keeps its
\* value and its pairs and no key maps to it any more
ReinsertSupersedes ==
    \A k \in DOMAIN keys, v \in Values :
        (last'.op = "insert" /\ last'.key = k /\ last'.value = Some(v)) =>
            /\ get(k)' = Some(v)
            /\ keys[k] \in Orphans'
            /\ data'[keys[k] + 1] = data[keys[k] + 1]
            /\ TokensAt(keyword_index', keys[k]) = ascii_keywords(k)

\* where the slot p is after the step (a removal below it shifts it down)
SlotAfterStep(p) ==
    IF last'.op = "remove" /\ last'.pos # None /\ last'.pos[2] < p
    THEN p - 1 ELSE p

\* a superseded slot survives every step with its value and its pairs
OrphansSurvive ==
    \A p \in Orphans :
        /\ SlotAfterStep(p) \in Orphans'
        /\ data'[SlotAfterStep(p) + 1] = data[p + 1]
        /\ TokensAt(keyword_index', SlotAfterStep(p)) = TokensAt(keyword_index, p)

\* every query that prefixes a token of a superseded slot gets the slot's
\* value as a Prefix match
OrphansReported ==
    \A p \in Orphans, q \in Queries :
        (\E n \in 1 .. Len(keyword_index) :
            keyword_index[n][2] = p /\ IsBytePrefix(q, keyword_index[n][1])) =>
                /\ ~FindPanics(q)
                /\ \E j \in 1 .. Len(PrefixPositions(q)) :
                        /\ PrefixPositions(q)[j] = p
                        /\ find_by_partial_keyword(q)[
                                Len(find_by_partial_keyword(q))
                                    - Len(PrefixPositions(q)) + j]
                           = Prefix(data[p + 1])

\* C15: insert(k, v2) of a present key makes get(k) return v2 and leaves the
\* old value and its Keyword Index pairs in place; no later insert or remove
\* frees that slot or its pairs: the excess of Value Store length over
\* Exact-Key Index size never decreases, and find_by_partial_keyword keeps
\* reporting the old value as a Prefix match.
C15_SupersededSlotStays ==
    /\ []OrphansReported
    /\ [][ReinsertSupersedes /\ OrphansSurvive /\ Excess' >= Excess]_vars

\* a key was inserted twice and then removed: its first slot and pairs remain
C15_Witness ==
    /\ last.op = "remove" /\ last.pos # None
    /\ last.key \notin DOMAIN keys
    /\ \E p \in Orphans :
            /\ TokensAt(keyword_index, p) = ascii_keywords(last.key)
            /\ TokensAt(keyword_index, p) # <<>>

(***************************************************************************)
(* Positions                                                               *)
(***************************************************************************)
\* C16: no two distinct keys of the Exact-Key Index map to the same position,
\* re-insertion of a present key included.
C16_KeyPositionsDistinct ==
    \A k1, k2 \in DOMAIN keys : keys[k1] = keys[k2] => k1 = k2

\* several keys are present beside a superseded slot
C16_Witness ==
    /\ Cardinality(DOMAIN keys) >= 2
    /\ Orphans # {}

NonDecreasing(seq) == \A m, n \in 1 .. Len(seq) : m < n => seq[m] <= seq[n]

\* C19: the positions of the Keyword Index pairs never decrease along the
\* list, so the Prefix matches of find_by_partial_keyword come in
\* non-decreasing Value Store position.
C19_KeywordPositionsNonDecreasing ==
    /\ NonDecreasing([n \in 1 .. Len(keyword_index) |-> keyword_index[n][2]])
    /\ \A q \in Queries : NonDecreasing(PrefixPositions(q))

\* the Keyword Index holds pairs of several positions and a search reported
\* more than one of them
C19_Witness ==
    /\ last.op = "find" /\ ~panicked
    /\ Len(PrefixPositions(last.key)) >= 2
    /\ PrefixPositions(last.key)[1] < PrefixPositions(last.key)[Len(PrefixPositions(last.key))]
    /\ Len(keyword_index) >= 3

KeyPositions == {keys[k] : k \in DOMAIN keys}

\* C20: when no key is inserted while it is present, the Exact-Key Index is
\* a bijection from the present keys onto 0..len(Value Store)-1, every
\* Keyword Index position is the position of a present key, and every value
\* find_by_partial_keyword yields is the value of a present key.
C20_FreshInsertsKeepBijection ==
    /\ \A k1, k2 \in DOMAIN keys : keys[k1] = keys[k2] => k1 = k2
    /\ KeyPositions = 0 .. (Len(data) - 1)
    /\ \A n \in 1 .. Len(keyword_index) : keyword_index[n][2] \in KeyPositions
    /\ \A q \in Queries :
            \A j \in 1 .. Len(FindPositions(q)) : FindPositions(q)[j] \in KeyPositions
    /\ (last.op = "find" /\ ~panicked) =>
            \A j \in 1 .. Len(last.ret) :
                \E k \in DOMAIN keys : get(k) = Some(last.ret[j][2])

\* a search found several matches in a container that holds some of the keys
C20_Witness ==
    /\ last.op = "find" /\ ~panicked
    /\ Len(last.ret) >= 2
    /\ Cardinality(DOMAIN keys) >= 2
    /\ Cardinality(DOMAIN keys) < Cardinality(Keys)
    /\ Len(data) = Cardinality(DOMAIN keys)

(***************************************************************************)
(* Further properties of the tokenizer                                     *)
(***************************************************************************)
AllAlphabetic(tok) == \A i \in 1 .. Len(tok) : is_ascii_alphabetic(tok[i])

AllDigits(tok) == \A i \in 1 .. Len(tok) : is_ascii_digit(tok[i])

\* C17: every token the tokenizer produces is non-empty and made either of
\* ASCII-alphabetic bytes only or of ASCII-digit bytes only; an input that is
\* one run of letters and digits is split at each letter/digit boundary.
C17_TokensAreHomogeneous ==
    /\ \A n \in 1 .. Len(out) :
            out[n] # <<>> /\ (AllAlphabetic(out[n]) \/ AllDigits(out[n]))
    /\ (ret = None /\ \A i \in 1 .. Len(s) : is_ascii_alphanumeric(s[i])) =>
            out = MaximalRuns(s)

\* letters followed directly by digits were tokenized into two tokens
C17_Witness ==
    /\ ret = None
    /\ Len(out) = 2 /\ s = out[1] \o out[2] /\ Len(s) >= 3
    /\ AllAlphabetic(out[1]) /\ AllDigits(out[2])

\* C18: each call of next() returns a token and moves the cursor forward, or
\* returns None; the cursor stays within the input and at most len(input)
\* tokens are produced; once None was returned every later call returns
\* None; and the iteration does reach None.
C18_TokenizerTerminates ==
    /\ [](/\ index <= Len(s)
          /\ Len(out) <= Len(s)
          /\ (ret = None => AsciiKeywords_next(s, index).ret = None))
    /\ [][\/ ret' = None /\ out' = out
          \/ /\ ret' # None /\ ret'[1] = "Some"
             /\ index' > index
             /\ out' = Append(out, ret'[2])]_vars
    /\ <>(ret = None)

\* the iteration ended at the end of an input after several tokens
C18_Witness ==
    /\ ret = None
    /\ Len(out) >= 2
    /\ index = Len(s)

====
